---- MODULE Spec2Model ----
(***************************************************************************)
(* A model of the file-manager single-page client (frontend/src/App.tsx,   *)
(* usePrefs, api) and of the content-search core its backend implements.   *)
(*                                                                         *)
(* Text values (queries, file names, type filters) are sequences of        *)
(* one-character strings, so that trim, lower-casing, splitting and        *)
(* substring search are computed character by character.                   *)
(***************************************************************************)
EXTENDS Integers, Sequences, FiniteSets, TLC

VARIABLES
    \* ---- the React state of App and usePrefs, and its environment ----
    authUid,       \* the identity provider's current user (NoUser when signed out)
    tokenReqs,     \* uids whose getIdToken() call of the auth callback is pending
    user,          \* App state `user` (its uid; NoUser for null)
    items,         \* App state `items`
    isAdmin,       \* App state `isAdmin`
    prefs,         \* usePrefs state `prefs`
    storage,       \* localStorage: uid |-> the value under key fm:prefs:<uid>
    contentRes,    \* App state `contentRes`
    deleteTarget,  \* App state `deleteTarget`
    busy,          \* App state `busy`
    err,           \* App state `err`
    calls,         \* API requests awaiting their response, with the closure that awaits
    serverFiles,   \* the backend's file records
    \* ---- the content-search core (backend) ----
    sStore,        \* the metadata store's records, most recent first
    sReq,          \* the search request being served
    sCands,        \* the candidate sequence the metadata store resolved
    sPc,           \* position of the orchestrator
    sIdx,          \* index of the next candidate
    sResp,         \* the response being aggregated
    sEvaluated,    \* history: indexes of the candidates the match finder was run on
    sEnumerated,   \* history: whether the candidate set was resolved
    \* ---- inputs and outputs of the pure functions ----
    fnIn,          \* the input of the function under check
    fnOut          \* its output

uiVars == <<authUid, tokenReqs, user, items, isAdmin, prefs, storage, contentRes,
            deleteTarget, busy, err, calls, serverFiles>>
srvVars == <<sStore, sReq, sCands, sPc, sIdx, sResp, sEvaluated, sEnumerated>>
fnVars == <<fnIn, fnOut>>
vars == <<uiVars, srvVars, fnVars>>

(***************************************************************************)
(* Text                                                                    *)
(***************************************************************************)

\* String.prototype.toLowerCase, on one character.
LowerChar(c) ==
    CASE c = "A" -> "a"
      [] c = "B" -> "b"
      [] c = "J" -> "j"
      [] c = "T" -> "t"
      [] c = "X" -> "x"
      [] c = "P" -> "p"
      [] OTHER -> c

ToLower(s) == [i \in 1..Len(s) |-> LowerChar(s[i])]

IsSpace(c) == c \in {" ", "\n"}

RECURSIVE TrimStart(_)
TrimStart(s) ==
    IF s = <<>> THEN <<>>
    ELSE IF IsSpace(Head(s)) THEN TrimStart(Tail(s))
    ELSE s

RECURSIVE TrimEnd(_)
TrimEnd(s) ==
    IF s = <<>> THEN <<>>
    ELSE IF IsSpace(s[Len(s)]) THEN TrimEnd(SubSeq(s, 1, Len(s) - 1))
    ELSE s

\* String.prototype.trim
Trim(s) == TrimEnd(TrimStart(s))

\* String.prototype.includes
Includes(s, sub) ==
    \E i \in 0..(Len(s) - Len(sub)) : SubSeq(s, i + 1, i + Len(sub)) = sub

\* The last segment of s.split(sep): what follows the last occurrence of sep,
\* or all of s when sep does not occur.
RECURSIVE LastSegment(_, _)
LastSegment(s, sep) ==
    IF s = <<>> THEN <<>>
    ELSE IF s[Len(s)] = sep THEN <<>>
    ELSE Append(LastSegment(SubSeq(s, 1, Len(s) - 1), sep), s[Len(s)])

RECURSIVE SeqToSet(_)
SeqToSet(s) == IF s = <<>> THEN {} ELSE {Head(s)} \cup SeqToSet(Tail(s))

Min(a, b) == IF a <= b THEN a ELSE b

(***************************************************************************)
(* usePrefs: the persisted preferences                                     *)
(***************************************************************************)

NoUser == "none"
Users == {"u1", "u2"}

PrefFields == <<"view", "sort", "order", "ftype", "q", "contentQ">>

DEFAULT_PREFS ==
    [view |-> "mine", sort |-> "date", order |-> "desc",
     ftype |-> <<>>, q |-> <<>>, contentQ |-> <<>>]

\* localStorage.getItem(key) === null
Missing == [present |-> FALSE, wellFormed |-> TRUE, entries |-> <<>>]

\* A stored value JSON.parse throws on.
Unparsable == [present |-> TRUE, wellFormed |-> FALSE, entries |-> <<>>]

\* JSON.stringify(prefs): the object's entries in key order.
Stringify(p) ==
    [present |-> TRUE, wellFormed |-> TRUE,
     entries |-> [i \in 1..Len(PrefFields) |-> <<PrefFields[i], p[PrefFields[i]]>>]]

\* safeParse: null for a missing or unparsable value, else the parsed object
\* (its entries; a later entry of a key overrides an earlier one).
safeParse(json) ==
    IF ~json.present \/ ~json.wellFormed
    THEN [isNull |-> TRUE, entries |-> <<>>]
    ELSE [isNull |-> FALSE, entries |-> json.entries]

\* The value of key f in a parsed object, or dflt when the object has no such key.
RECURSIVE Lookup(_, _, _)
Lookup(entries, f, dflt) ==
    IF entries = <<>> THEN dflt
    ELSE IF entries[Len(entries)][1] = f THEN entries[Len(entries)][2]
    ELSE Lookup(SubSeq(entries, 1, Len(entries) - 1), f, dflt)

\* saved ? { ...DEFAULT_PREFS, ...saved } : DEFAULT_PREFS
MergeSaved(saved) ==
    IF saved.isNull THEN DEFAULT_PREFS
    ELSE [f \in DOMAIN DEFAULT_PREFS |-> Lookup(saved.entries, f, DEFAULT_PREFS[f])]

\* The key the hook reads and writes for uid u: `fm:prefs:${uid}`.
PrefsKey(u) == <<"fm:prefs:", u>>

\* The keys of localStorage the page can touch.
StorageKeys == {PrefsKey(u) : u \in Users}

\* A hook that never reads what it stored.
LoadDefaultsOnly(st, u) == DEFAULT_PREFS

\* The load effect of usePrefs, run when the uid changes to u.
LoadPrefs(st, u) ==
    IF u = NoUser THEN DEFAULT_PREFS ELSE MergeSaved(safeParse(st[PrefsKey(u)]))

\* The save effect of usePrefs, run when uid, key or prefs changed.
SavePrefs(st, u, p) ==
    IF u = NoUser THEN st ELSE [st EXCEPT ![PrefsKey(u)] = Stringify(p)]

(***************************************************************************)
(* Files, the backend's answers, and the requests in flight                *)
(***************************************************************************)

\* The backend's static admin allow-list (ADMIN_EMAILS), by uid.
Admins == {"u1"}

Txt == <<"t", "x", "t">>

NoFile == [id |-> 0, uid |-> NoUser, name |-> <<>>, type |-> <<>>, size |-> 0, created_at |-> 0]

\* The files the backend holds when the page is opened.
InitialFiles ==
    { [id |-> 1, uid |-> "u1", name |-> <<"a">>, type |-> Txt, size |-> 2, created_at |-> 1],
      [id |-> 2, uid |-> "u2", name |-> <<"b">>, type |-> Txt, size |-> 1, created_at |-> 2] }

\* A set of file records as the metadata store lists it: most recent first.
RECURSIVE MostRecentFirst(_)
MostRecentFirst(fs) ==
    IF fs = {} THEN <<>>
    ELSE LET f == CHOOSE x \in fs : \A y \in fs : y.id <= x.id
         IN  <<f>> \o MostRecentFirst(fs \ {f})

\* GET /api/admin/files
ServerListAll(fs) == MostRecentFirst(fs)

\* GET /api/files: the caller's own files.
ServerListMine(fs, uid) == MostRecentFirst({f \in fs : f.uid = uid})

\* The scope rule of the search endpoint: only an admin may ask for scope all.
ScopeAllowed(admin, scope) == scope = "all" => admin

\* DELETE /api/files/{id} is for the owner only.
DeleteAllowed(uid, f) == f.uid = uid

\* Error messages, as jsonFetch builds them: `${status} ${statusText} ${txt}`.
NoErr == <<>>
Msg403 == <<"4", "0", "3">>
Msg404 == <<"4", "0", "4">>
Msg500 == <<"5", "0", "0">>

\* msg.includes("403")
Includes403(msg) == Includes(msg, <<"4", "0", "3">>)

NoRes == [present |-> FALSE, scope |-> "mine", q |-> <<>>]

\* A request awaiting its response, with what the awaiting closure captured:
\* the user of its render, the mode or scope, the query, the file, the selected
\* file names, and the handler (parent) that awaits a refresh.
MkCall(k, uid, mode, q, file, names, parent) ==
    [k |-> k, uid |-> uid, mode |-> mode, q |-> q, file |-> file, names |-> names,
     parent |-> parent]

RefreshCall(uid, mode, parent) == MkCall("refresh", uid, mode, <<>>, NoFile, <<>>, parent)

(***************************************************************************)
(* App: derived values                                                     *)
(***************************************************************************)

\* The comparator of displayed's sort: negative, zero or positive.
CompareItems(a, b, sort, order) ==
    LET dir == IF order = "desc" THEN -1 ELSE 1
    IN  IF sort = "size" THEN dir * (a.size - b.size)
        ELSE dir * (a.created_at - b.created_at)

\* Array.prototype.sort is stable: x goes after every element that does not
\* compare greater than it.
RECURSIVE InsertStable(_, _, _, _)
InsertStable(sorted, x, sort, order) ==
    IF sorted = <<>> THEN <<x>>
    ELSE IF CompareItems(Head(sorted), x, sort, order) <= 0
         THEN <<Head(sorted)>> \o InsertStable(Tail(sorted), x, sort, order)
         ELSE <<x>> \o sorted

RECURSIVE SortItems(_, _, _)
SortItems(arr, sort, order) ==
    IF arr = <<>> THEN <<>>
    ELSE InsertStable(SortItems(SubSeq(arr, 1, Len(arr) - 1), sort, order),
                      arr[Len(arr)], sort, order)

FilterByType(arr, ftype) ==
    LET Keep(x) == x.type = ToLower(Trim(ftype))
    IN  IF Trim(ftype) # <<>> THEN SelectSeq(arr, Keep) ELSE arr

\* A name filter that compares letter case.
FilterByNameExactCase(arr, q) ==
    LET qq == Trim(q)
        Keep(x) == Includes(x.name, qq)
    IN  IF qq # <<>> THEN SelectSeq(arr, Keep) ELSE arr

FilterByName(arr, q) ==
    LET qq == ToLower(Trim(q))
        Keep(x) == Includes(ToLower(x.name), qq)
    IN  IF qq # <<>> THEN SelectSeq(arr, Keep) ELSE arr

\* The memo `displayed`.
Displayed(its, p) ==
    IF p.view # "all" THEN its
    ELSE SortItems(FilterByName(FilterByType(its, p.ftype), p.q), p.sort, p.order)

displayed == Displayed(items, prefs)

\* const myUid = user?.uid ?? ""
myUid == user

\* The Delete button of row f is enabled.
DeleteEnabled(f) == ~busy /\ ~(prefs.view = "all" /\ f.uid # myUid)

\* The dependencies of the effect that re-lists on a changed sort, order or type.
ListDeps(p) == <<p.sort, p.order, p.ftype>>

(***************************************************************************)
(* App: the auth callback                                                  *)
(***************************************************************************)

\* At most this many requests are in flight at once.
MaxCalls == 2

AdminCall(uid) == MkCall("admin", uid, "all", <<>>, NoFile, <<>>, "none")

\* The callback of onAuthStateChanged for u = null:
\* setErr(""), setUser(null), setItems([]), setIsAdmin(false), setView("mine"),
\* followed by the effects of the render (the hook resets prefs when the uid
\* goes away; the effect on view clears the search results).
SignedOutHandled ==
    LET p2 == IF user # NoUser THEN LoadPrefs(storage, NoUser)
              ELSE [prefs EXCEPT !.view = "mine"]
    IN  /\ err' = NoErr
        /\ user' = NoUser
        /\ items' = <<>>
        /\ isAdmin' = FALSE
        /\ prefs' = p2
        /\ contentRes' = IF p2.view # prefs.view THEN NoRes ELSE contentRes

\* "Sign in with Google" while signed out: doLogin, then the callback for the
\* new user up to its await of getIdToken().
DoLogin(u) ==
    /\ user = NoUser
    /\ authUid = NoUser
    /\ authUid' = u
    /\ tokenReqs' = tokenReqs \cup {u}
    /\ err' = NoErr
    /\ UNCHANGED <<user, items, isAdmin, prefs, storage, contentRes, deleteTarget,
                   busy, calls, serverFiles>>
    /\ UNCHANGED <<srvVars, fnVars>>

\* getIdToken() resolves: setUser({email, uid, token}).  When the uid changed,
\* the hook loads and saves the prefs of u, the admin detection starts, and the
\* effects on (sort, order, ftype) and on view see the loaded prefs.
TokenResolved(u) ==
    /\ u \in tokenReqs
    /\ tokenReqs' = tokenReqs \ {u}
    /\ user' = u
    /\ LET changed == user # u
           p2 == IF changed THEN LoadPrefs(storage, u) ELSE prefs
           relist == changed /\ ListDeps(p2) # ListDeps(prefs) /\ p2.view = "mine"
           started == (IF changed THEN {AdminCall(u)} ELSE {})
                      \cup (IF relist THEN {RefreshCall(u, "mine", "none")} ELSE {})
       IN  /\ prefs' = p2
           /\ storage' = IF changed THEN SavePrefs(storage, u, p2) ELSE storage
           /\ contentRes' = IF p2.view # prefs.view THEN NoRes ELSE contentRes
           /\ calls' = calls \cup started
           /\ Cardinality(calls') <= MaxCalls
           /\ busy' = IF relist THEN TRUE ELSE busy
           /\ err' = IF relist THEN NoErr ELSE err
    /\ UNCHANGED <<authUid, items, isAdmin, deleteTarget, serverFiles>>
    /\ UNCHANGED <<srvVars, fnVars>>

\* "Logout": doLogout, then the callback for null when a user was signed in.
DoLogout ==
    /\ user # NoUser
    /\ ~busy
    /\ IF authUid # NoUser
       THEN /\ authUid' = NoUser
            /\ SignedOutHandled
       ELSE /\ err' = NoErr
            /\ UNCHANGED <<authUid, user, items, isAdmin, prefs, contentRes>>
    /\ UNCHANGED <<tokenReqs, storage, deleteTarget, busy, calls, serverFiles>>
    /\ UNCHANGED <<srvVars, fnVars>>

\* The identity provider reports a sign-out the page did not ask for (another
\* tab signed out, the session was revoked).
SignedOutElsewhere ==
    /\ authUid # NoUser
    /\ authUid' = NoUser
    /\ SignedOutHandled
    /\ UNCHANGED <<tokenReqs, storage, deleteTarget, busy, calls, serverFiles>>
    /\ UNCHANGED <<srvVars, fnVars>>

(***************************************************************************)
(* App: the handlers of the panel                                          *)
(***************************************************************************)

\* "Refresh", or Enter in the name search: refresh(view).
RefreshRequested ==
    /\ user # NoUser
    /\ err' = NoErr
    /\ busy' = TRUE
    /\ calls' = calls \cup {RefreshCall(user, prefs.view, "none")}
    /\ Cardinality(calls') <= MaxCalls
    /\ UNCHANGED <<authUid, tokenReqs, user, items, isAdmin, prefs, storage, contentRes,
                   deleteTarget, serverFiles>>
    /\ UNCHANGED <<srvVars, fnVars>>

\* "My files" / "All files (admin)": setView(v); refresh(v).
ViewClicked(v) ==
    /\ user # NoUser
    /\ isAdmin
    /\ ~busy
    /\ prefs' = [prefs EXCEPT !.view = v]
    /\ storage' = SavePrefs(storage, user, prefs')
    /\ contentRes' = IF v # prefs.view THEN NoRes ELSE contentRes
    /\ err' = NoErr
    /\ busy' = TRUE
    /\ calls' = calls \cup {RefreshCall(user, v, "none")}
    /\ Cardinality(calls') <= MaxCalls
    /\ UNCHANGED <<authUid, tokenReqs, user, items, isAdmin, deleteTarget, serverFiles>>
    /\ UNCHANGED <<srvVars, fnVars>>

\* A runContentSearch that forgets to trim.
SearchQueryUntrimmed(cq) == cq

\* const qq = contentQ.trim()
SearchQuery(cq) == Trim(cq)

\* const scope = view === "all" ? "all" : "mine"
SearchScope(view) == IF view = "all" THEN "all" ELSE "mine"

\* "Search text", or Enter in the content search: runContentSearch.
RunContentSearch ==
    /\ user # NoUser
    /\ LET qq == SearchQuery(prefs.contentQ)
       IN  IF qq = <<>>
           THEN /\ contentRes' = NoRes
                /\ UNCHANGED <<err, busy, calls>>
           ELSE /\ err' = NoErr
                /\ busy' = TRUE
                /\ calls' = calls \cup {MkCall("search", user, SearchScope(prefs.view), qq,
                                               NoFile, <<>>, "none")}
                /\ Cardinality(calls') <= MaxCalls
                /\ UNCHANGED contentRes
    /\ UNCHANGED <<authUid, tokenReqs, user, items, isAdmin, prefs, storage,
                   deleteTarget, serverFiles>>
    /\ UNCHANGED <<srvVars, fnVars>>

\* "Clear": setContentQ(""); setContentRes(null).
ClearSearch ==
    /\ user # NoUser
    /\ ~busy
    /\ prefs.contentQ # <<>> \/ contentRes.present
    /\ prefs' = [prefs EXCEPT !.contentQ = <<>>]
    /\ storage' = SavePrefs(storage, user, prefs')
    /\ contentRes' = NoRes
    /\ UNCHANGED <<authUid, tokenReqs, user, items, isAdmin, deleteTarget, busy, err,
                   calls, serverFiles>>
    /\ UNCHANGED <<srvVars, fnVars>>

\* An input or select of the panel changes: setSort, setOrder, setFtype, setQ
\* or setContentQ, then the hook's save effect and, when sort, order or type
\* changed in the normal view, the effect that runs refresh("mine").
PrefChanged(f, v) ==
    /\ user # NoUser
    /\ f \in {"sort", "order", "ftype", "q", "contentQ"}
    /\ prefs' = [prefs EXCEPT ![f] = v]
    /\ storage' = SavePrefs(storage, user, prefs')
    /\ LET relist == ListDeps(prefs') # ListDeps(prefs) /\ prefs.view = "mine"
       IN  /\ err' = IF relist THEN NoErr ELSE err
           /\ busy' = IF relist THEN TRUE ELSE busy
           /\ calls' = IF relist THEN calls \cup {RefreshCall(user, "mine", "none")}
                       ELSE calls
    /\ Cardinality(calls') <= MaxCalls
    /\ UNCHANGED <<authUid, tokenReqs, user, items, isAdmin, contentRes, deleteTarget,
                   serverFiles>>
    /\ UNCHANGED <<srvVars, fnVars>>

\* The "Delete" button of a displayed row: setDeleteTarget(f).
DeleteClicked(f) ==
    /\ f \in SeqToSet(displayed)
    /\ DeleteEnabled(f)
    /\ deleteTarget' = f
    /\ UNCHANGED <<authUid, tokenReqs, user, items, isAdmin, prefs, storage, contentRes,
                   busy, err, calls, serverFiles>>
    /\ UNCHANGED <<srvVars, fnVars>>

\* "Cancel" in the confirmation modal.
DeleteCancelled ==
    /\ deleteTarget # NoFile
    /\ ~busy
    /\ deleteTarget' = NoFile
    /\ UNCHANGED <<authUid, tokenReqs, user, items, isAdmin, prefs, storage, contentRes,
                   busy, err, calls, serverFiles>>
    /\ UNCHANGED <<srvVars, fnVars>>

\* "Delete" in the confirmation modal: onDelete(deleteTarget) up to its await.
DeleteConfirmed ==
    /\ deleteTarget # NoFile
    /\ ~busy
    /\ user # NoUser
    /\ busy' = TRUE
    /\ err' = NoErr
    /\ calls' = calls \cup {MkCall("delete", user, prefs.view, <<>>, deleteTarget, <<>>,
                                   "none")}
    /\ Cardinality(calls') <= MaxCalls
    /\ UNCHANGED <<authUid, tokenReqs, user, items, isAdmin, prefs, storage, contentRes,
                   deleteTarget, serverFiles>>
    /\ UNCHANGED <<srvVars, fnVars>>

Json == <<"j", "s", "o", "n">>
Pdf == <<"p", "d", "f">>

\* ["json", "txt", "pdf"]
AllowedExts == {Json, Txt, Pdf}

\* f.name.split(".").pop()?.toLowerCase()
ExtOf(name) == ToLower(LastSegment(name, "."))

\* The filter of onUpload: !ext || !["json", "txt", "pdf"].includes(ext)
IsBadName(name) == ExtOf(name) = <<>> \/ ExtOf(name) \notin AllowedExts

\* names.join(", ")
RECURSIVE JoinNames(_)
JoinNames(names) ==
    IF names = <<>> THEN <<>>
    ELSE IF Len(names) = 1 THEN names[1]
    ELSE names[1] \o <<",", " ">> \o JoinNames(Tail(names))

\* `Only .json, .txt, .pdf allowed. Bad: ${...}`
BadTypesMessage(bad) == <<"B", "a", "d", ":", " ">> \o JoinNames(bad)

\* The file input changes: onUpload(files) up to its await.
OnUpload(sel) ==
    /\ ~busy
    /\ user # NoUser
    /\ sel # <<>>
    /\ LET bad == SelectSeq(sel, IsBadName)
       IN  IF bad # <<>>
           THEN /\ err' = BadTypesMessage(bad)
                /\ UNCHANGED <<busy, calls>>
           ELSE /\ err' = NoErr
                /\ busy' = TRUE
                /\ calls' = calls \cup {MkCall("upload", user, prefs.view, <<>>, NoFile, sel,
                                               "none")}
                /\ Cardinality(calls') <= MaxCalls
    /\ UNCHANGED <<authUid, tokenReqs, user, items, isAdmin, prefs, storage, contentRes,
                   deleteTarget, serverFiles>>
    /\ UNCHANGED <<srvVars, fnVars>>

(***************************************************************************)
(* App: the continuations that run when a response arrives                 *)
(***************************************************************************)

\* The message of a failed request with the given outcome.
ErrorOf(out) ==
    CASE out = "403" -> Msg403
      [] out = "404" -> Msg404
      [] out = "500b" -> Msg500 \o <<" ">> \o Msg403
      [] OTHER -> Msg500

\* res.status of an answer: "500b" is a 500 whose body text mentions 403 (an
\* upstream refusal reported by the backend).
StatusOf(out) == IF out = "500b" THEN "500" ELSE out

\* The admin detection: listAllFilesAdmin answered.  setIsAdmin(true), or
\* setIsAdmin(false) and setView("mine"); then refresh("mine") of the same
\* closure runs up to its await.
RespondAdmin(c, ok) ==
    /\ c \in calls
    /\ c.k = "admin"
    /\ ok => c.uid \in Admins
    /\ LET p2 == IF ok THEN prefs ELSE [prefs EXCEPT !.view = "mine"]
       IN  /\ isAdmin' = ok
           /\ prefs' = p2
           /\ storage' = IF ok THEN storage ELSE SavePrefs(storage, user, p2)
           /\ contentRes' = IF p2.view # prefs.view THEN NoRes ELSE contentRes
    /\ err' = NoErr
    /\ busy' = TRUE
    /\ calls' = (calls \ {c}) \cup {RefreshCall(c.uid, "mine", "none")}
    /\ UNCHANGED <<authUid, tokenReqs, user, items, deleteTarget, serverFiles>>
    /\ UNCHANGED <<srvVars, fnVars>>

\* refresh: the list request answered (try, catch and finally), then the
\* finally of the handler that awaited this refresh.
RespondRefresh(c, out) ==
    /\ c \in calls
    /\ c.k = "refresh"
    /\ out \in {"ok", "403", "500", "500b"}
    /\ out = "ok" => (c.mode = "all" => c.uid \in Admins)
    /\ out = "403" => (c.mode = "all" /\ c.uid \notin Admins)
    /\ LET fallback == out # "ok" /\ c.mode = "all" /\ Includes403(ErrorOf(out))
           p2 == IF fallback THEN [prefs EXCEPT !.view = "mine"] ELSE prefs
       IN  /\ items' = IF out # "ok" THEN items
                       ELSE IF c.mode = "all" THEN ServerListAll(serverFiles)
                       ELSE ServerListMine(serverFiles, c.uid)
           /\ isAdmin' = IF fallback THEN FALSE ELSE isAdmin
           /\ prefs' = p2
           /\ storage' = IF fallback THEN SavePrefs(storage, user, p2) ELSE storage
           /\ contentRes' = IF p2.view # prefs.view THEN NoRes ELSE contentRes
           /\ err' = IF out # "ok" /\ ~fallback THEN ErrorOf(out) ELSE err
    /\ busy' = FALSE
    /\ deleteTarget' = IF c.parent = "delete" THEN NoFile ELSE deleteTarget
    /\ calls' = calls \ {c}
    /\ UNCHANGED <<authUid, tokenReqs, user, serverFiles>>
    /\ UNCHANGED <<srvVars, fnVars>>

\* runContentSearch: the search request answered.
RespondSearch(c, out) ==
    /\ c \in calls
    /\ c.k = "search"
    /\ out \in {"ok", "403", "500"}
    /\ out = "ok" => ScopeAllowed(c.uid \in Admins, c.mode)
    /\ out = "403" => ~ScopeAllowed(c.uid \in Admins, c.mode)
    /\ contentRes' = IF out = "ok" THEN [present |-> TRUE, scope |-> c.mode, q |-> c.q]
                     ELSE contentRes
    /\ err' = IF out = "ok" THEN err ELSE ErrorOf(out)
    /\ busy' = FALSE
    /\ calls' = calls \ {c}
    /\ UNCHANGED <<authUid, tokenReqs, user, items, isAdmin, prefs, storage,
                   deleteTarget, serverFiles>>
    /\ UNCHANGED <<srvVars, fnVars>>

\* onDelete: the DELETE request answered.  On success refresh(view) of the same
\* closure runs up to its await; on failure the catch and the finally run.
RespondDelete(c, out) ==
    /\ c \in calls
    /\ c.k = "delete"
    /\ out \in {"ok", "403", "404", "500"}
    /\ out = "ok" => (c.file \in serverFiles /\ DeleteAllowed(c.uid, c.file))
    /\ out = "403" => (c.file \in serverFiles /\ ~DeleteAllowed(c.uid, c.file))
    /\ out = "404" => c.file \notin serverFiles
    /\ IF out = "ok"
       THEN /\ serverFiles' = serverFiles \ {c.file}
            /\ err' = NoErr
            /\ busy' = TRUE
            /\ calls' = (calls \ {c}) \cup {RefreshCall(c.uid, c.mode, "delete")}
            /\ UNCHANGED deleteTarget
       ELSE /\ err' = ErrorOf(out)
            /\ busy' = FALSE
            /\ deleteTarget' = NoFile
            /\ calls' = calls \ {c}
            /\ UNCHANGED serverFiles
    /\ UNCHANGED <<authUid, tokenReqs, user, items, isAdmin, prefs, storage, contentRes>>
    /\ UNCHANGED <<srvVars, fnVars>>

\* The backend holds at most this many files.
MaxServerFiles == 4

NextFileId(fs) == 1 + Cardinality(fs)

\* POST /api/files: one new record per uploaded file, owned by the uploader,
\* its type derived from the extension.
RECURSIVE StoreUploads(_, _, _)
StoreUploads(fs, uid, names) ==
    IF names = <<>> THEN fs
    ELSE StoreUploads(fs \cup {[id |-> NextFileId(fs), uid |-> uid, name |-> Head(names),
                               type |-> ExtOf(Head(names)), size |-> 1,
                               created_at |-> NextFileId(fs)]},
                      uid, Tail(names))

\* onUpload: the upload request answered.  On success refresh(view) of the same
\* closure runs up to its await; on failure the catch and the finally run.
RespondUpload(c, ok) ==
    /\ c \in calls
    /\ c.k = "upload"
    /\ IF ok
       THEN /\ Cardinality(serverFiles) + Len(c.names) <= MaxServerFiles
            /\ serverFiles' = StoreUploads(serverFiles, c.uid, c.names)
            /\ err' = NoErr
            /\ busy' = TRUE
            /\ calls' = (calls \ {c}) \cup {RefreshCall(c.uid, c.mode, "upload")}
       ELSE /\ err' = Msg500
            /\ busy' = FALSE
            /\ calls' = calls \ {c}
            /\ UNCHANGED serverFiles
    /\ UNCHANGED <<authUid, tokenReqs, user, items, isAdmin, prefs, storage, contentRes,
                   deleteTarget>>
    /\ UNCHANGED <<srvVars, fnVars>>

(***************************************************************************)
(* The page: from its mount, under every interleaving                      *)
(***************************************************************************)

\* What a returning user left in localStorage: a content query typed earlier.
PriorPrefs == [DEFAULT_PREFS EXCEPT !.contentQ = <<"a">>]

SrvIdle ==
    /\ sStore = <<>>
    /\ sReq = [admin |-> FALSE, uid |-> NoUser, scope |-> "mine", q |-> <<>>, max |-> 0]
    /\ sCands = <<>>
    /\ sPc = "idle"
    /\ sIdx = 0
    /\ sResp = [status |-> "none", items |-> <<>>, skipped |-> 0, truncated |-> 0]
    /\ sEvaluated = {}
    /\ sEnumerated = FALSE

\* No pure function is under check.
FnIdle ==
    /\ fnIn = <<>>
    /\ fnOut = [done |-> FALSE, value |-> <<>>]

UiMounted ==
    /\ authUid = NoUser
    /\ tokenReqs = {}
    /\ user = NoUser
    /\ items = <<>>
    /\ isAdmin = FALSE
    /\ prefs = DEFAULT_PREFS
    /\ contentRes = NoRes
    /\ deleteTarget = NoFile
    /\ busy = FALSE
    /\ err = NoErr
    /\ calls = {}
    /\ serverFiles = InitialFiles

Init ==
    /\ UiMounted
    /\ storage = [k \in StorageKeys |-> Stringify(PriorPrefs)]
    /\ SrvIdle
    /\ FnIdle

Next ==
    \/ \E u \in Users : DoLogin(u)
    \/ \E u \in Users : TokenResolved(u)
    \/ DoLogout
    \/ SignedOutElsewhere
    \/ RefreshRequested
    \/ \E v \in {"mine", "all"} : ViewClicked(v)
    \/ RunContentSearch
    \/ \E f \in InitialFiles : DeleteClicked(f)
    \/ DeleteCancelled
    \/ DeleteConfirmed
    \/ \E c \in calls, ok \in BOOLEAN : RespondAdmin(c, ok)
    \/ \E c \in calls, out \in {"ok", "403", "500"} : RespondRefresh(c, out)
    \/ \E c \in calls, out \in {"ok", "403", "500"} : RespondSearch(c, out)
    \/ \E c \in calls, out \in {"ok", "403", "404", "500"} : RespondDelete(c, out)

Spec == Init /\ [][Next]_vars

(***************************************************************************)
(* The content-search box of a signed-in user                              *)
(***************************************************************************)

\* The longest text typed into the content-search box.
MaxQueryLen == 2

RECURSIVE TextsOver(_, _)
TextsOver(alphabet, n) ==
    IF n = 0 THEN {<<>>}
    ELSE LET shorter == TextsOver(alphabet, n - 1)
         IN  shorter \cup {Append(t, ch) : t \in shorter, ch \in alphabet}

QueryInputs == TextsOver({" ", "a"}, MaxQueryLen)

\* u is signed in, the admin detection and the first listing have completed.
SignedIn(u) ==
    /\ authUid = u
    /\ tokenReqs = {}
    /\ user = u
    /\ items = ServerListMine(InitialFiles, u)
    /\ isAdmin = (u \in Admins)
    /\ prefs = DEFAULT_PREFS
    /\ storage = [k \in StorageKeys |-> IF k = PrefsKey(u) THEN Stringify(DEFAULT_PREFS)
                                       ELSE Missing]
    /\ contentRes = NoRes
    /\ deleteTarget = NoFile
    /\ busy = FALSE
    /\ err = NoErr
    /\ calls = {}
    /\ serverFiles = InitialFiles

InitQuery ==
    /\ SignedIn("u1")
    /\ SrvIdle
    /\ FnIdle

NextQuery ==
    \/ \E v \in QueryInputs : PrefChanged("contentQ", v)
    \/ RunContentSearch
    \/ ClearSearch
    \/ \E c \in calls, out \in {"ok", "403", "500"} : RespondSearch(c, out)

SpecQuery == InitQuery /\ [][NextQuery]_vars

(***************************************************************************)
(* The upload input of a signed-in user                                    *)
(***************************************************************************)

\* The most files selected at once.
MaxSelected == 2

\* The file names tried: a.txt, a.TXT, b.json, c.pdf, pdf, a.exe, a.txt.x, a., atxt
NameInputs ==
    { <<"a", ".", "t", "x", "t">>, <<"a", ".", "T", "X", "T">>,
      <<"b", ".", "j", "s", "o", "n">>, <<"c", ".", "p", "d", "f">>,
      <<"p", "d", "f">>,
      <<"a", ".", "e", "x", "e">>, <<"a", ".", "t", "x", "t", ".", "x">>,
      <<"a", ".">>, <<"a", "t", "x", "t">> }

RECURSIVE SelectionsUpTo(_)
SelectionsUpTo(n) ==
    IF n = 0 THEN {<<>>}
    ELSE LET shorter == SelectionsUpTo(n - 1)
         IN  shorter \cup {Append(sel, nm) : sel \in shorter, nm \in NameInputs}

InitUpload ==
    /\ SignedIn("u1")
    /\ SrvIdle
    /\ FnIdle

NextUpload ==
    \/ \E sel \in SelectionsUpTo(MaxSelected) : OnUpload(sel)
    \/ \E c \in calls, ok \in BOOLEAN : RespondUpload(c, ok)
    \/ \E c \in calls, out \in {"ok", "500"} : RespondRefresh(c, out)

SpecUpload == InitUpload /\ [][NextUpload]_vars

(***************************************************************************)
(* usePrefs on its own: any uid, any stored value, any setter              *)
(***************************************************************************)

\* The values a setter is called with, per field.
PrefInputs ==
    [view |-> {"mine", "all"}, sort |-> {"date", "size"}, order |-> {"asc", "desc"},
     ftype |-> {<<>>, Txt}, q |-> {<<>>, <<"a">>}, contentQ |-> {<<>>, <<"b">>}]

\* What localStorage may hold for a key before the page is opened: nothing,
\* text that is not JSON, an object with some of the fields, a saved object.
StoredInputs ==
    { Missing, Unparsable,
      [present |-> TRUE, wellFormed |-> TRUE, entries |-> << <<"sort", "size">> >>],
      Stringify(PriorPrefs) }

\* usePrefs(uid) rendered with another uid: the load effect, then the save
\* effect of the render that follows it.
UidChanged(u) ==
    /\ u # user
    /\ user' = u
    /\ prefs' = LoadPrefs(storage, u)
    /\ storage' = SavePrefs(storage, u, prefs')
    /\ UNCHANGED <<authUid, tokenReqs, items, isAdmin, contentRes, deleteTarget, busy, err,
                   calls, serverFiles>>
    /\ UNCHANGED <<srvVars, fnVars>>

\* setView, setSort, setOrder, setFtype, setQ, setContentQ:
\* setPrefs((p) => ({ ...p, [f]: v })), then the save effect.
SetPref(f, v) ==
    /\ prefs' = [prefs EXCEPT ![f] = v]
    /\ prefs' # prefs
    /\ storage' = SavePrefs(storage, user, prefs')
    /\ UNCHANGED <<authUid, tokenReqs, user, items, isAdmin, contentRes, deleteTarget, busy,
                   err, calls, serverFiles>>
    /\ UNCHANGED <<srvVars, fnVars>>

InitPrefs ==
    /\ UiMounted
    /\ storage \in [StorageKeys -> StoredInputs]
    /\ SrvIdle
    /\ FnIdle

NextPrefs ==
    \/ \E u \in Users \cup {NoUser} : UidChanged(u)
    \/ \E f \in DOMAIN PrefInputs : \E v \in PrefInputs[f] : SetPref(f, v)

SpecPrefs == InitPrefs /\ [][NextPrefs]_vars

(***************************************************************************)
(* The matches of one search hit, as the results panel renders them        *)
(***************************************************************************)

\* hit.matches.slice(0, 10) and the "> 10" next to it
DisplayCap == 10

\* Array.prototype.slice(from, to) for 0 <= from <= to
Slice(arr, from, to) == SubSeq(arr, from + 1, Min(to, Len(arr)))

\* The rows rendered for the matches of a hit.
RenderedMatches(matches) == Slice(matches, 0, DisplayCap)

MoreLineFromCap(matches) ==
    IF Len(matches) >= DisplayCap THEN <<Len(matches) - DisplayCap>> ELSE <<>>

\* The "+k more matches" line: <<k>> when rendered, <<>> when not.
MoreLine(matches) ==
    IF Len(matches) > DisplayCap THEN <<Len(matches) - DisplayCap>> ELSE <<>>

\* The most matches a hit arrives with.
MaxMatches == 12

\* Match lists of length n: ascending line numbers, either of two texts a line.
RECURSIVE MatchListsOf(_)
MatchListsOf(n) ==
    IF n = 0 THEN {<<>>}
    ELSE {Append(ms, [line |-> 2 * n, text |-> t]) :
              ms \in MatchListsOf(n - 1), t \in {<<"a">>, <<"b">>}}

InitRender ==
    /\ UiMounted
    /\ storage = [k \in StorageKeys |-> Missing]
    /\ SrvIdle
    /\ \E n \in 0..MaxMatches : fnIn \in MatchListsOf(n)
    /\ fnOut = [done |-> FALSE, value |-> <<>>]

RenderHit ==
    /\ ~fnOut.done
    /\ fnOut' = [done |-> TRUE,
                 value |-> [rows |-> RenderedMatches(fnIn), more |-> MoreLine(fnIn)]]
    /\ UNCHANGED <<fnIn, uiVars, srvVars>>

NextRender == RenderHit

SpecRender == InitRender /\ [][NextRender]_vars

(***************************************************************************)
(* The memo `displayed` on its own: any fetched list, any filter and sort  *)
(***************************************************************************)

\* The array handed to sort by a render that forgot the spread: with no
\* filter applied it is the items array itself.
SortedArrayIsItemsNoSpread(its, p) == Trim(p.ftype) = <<>> /\ ToLower(Trim(p.q)) = <<>>

\* [...arr].sort(...): the array sorted in place is a fresh copy, never the
\* array the state holds.
SortedArrayIsItems(its, p) == FALSE

\* The items array after `displayed` was computed.
ItemsAfterRender(its, p) ==
    IF p.view = "all" /\ SortedArrayIsItems(its, p) THEN SortItems(its, p.sort, p.order)
    ELSE its

\* The longest fetched list.
MaxItems == 3

\* The rows a response may hold: names Ab, b, a, Ba; two of equal size.
ItemInputs ==
    { [id |-> 1, uid |-> "u1", name |-> <<"A", "b">>, type |-> Txt, size |-> 2, created_at |-> 1],
      [id |-> 2, uid |-> "u2", name |-> <<"b">>, type |-> Json, size |-> 1, created_at |-> 2],
      [id |-> 3, uid |-> "u1", name |-> <<"a">>, type |-> Txt, size |-> 2, created_at |-> 3],
      [id |-> 4, uid |-> "u2", name |-> <<"B", "a">>, type |-> Pdf, size |-> 0, created_at |-> 4] }

\* The lists of up to n different rows, in any order.
RECURSIVE ItemListsUpTo(_)
ItemListsUpTo(n) ==
    IF n = 0 THEN {<<>>}
    ELSE LET shorter == ItemListsUpTo(n - 1)
             longest == {l \in shorter : Len(l) = n - 1}
         IN  shorter \cup UNION {{Append(l, x) : x \in ItemInputs \ SeqToSet(l)} :
                                    l \in longest}

\* The filter and sort controls: blank, padded and mixed-case texts.
DisplayPrefs ==
    { [DEFAULT_PREFS EXCEPT !.view = v, !.sort = so, !.order = o, !.ftype = t, !.q = n] :
        v \in {"mine", "all"}, so \in {"date", "size"}, o \in {"asc", "desc"},
        t \in {<<>>, <<" ">>, <<"T", "x", "t", " ">>},
        n \in {<<>>, <<" ", "B">>, <<"a">>} }

InitDisplay ==
    /\ authUid = "u1"
    /\ tokenReqs = {}
    /\ user = "u1"
    /\ items \in ItemListsUpTo(MaxItems)
    /\ isAdmin = TRUE
    /\ prefs \in DisplayPrefs
    /\ storage = [k \in StorageKeys |-> Missing]
    /\ contentRes = NoRes
    /\ deleteTarget = NoFile
    /\ busy = FALSE
    /\ err = NoErr
    /\ calls = {}
    /\ serverFiles = InitialFiles
    /\ SrvIdle
    /\ fnIn = items
    /\ fnOut = [done |-> FALSE, value |-> <<>>]

\* A render computes the memo.
RenderDisplayed ==
    /\ ~fnOut.done
    /\ fnOut' = [done |-> TRUE, value |-> Displayed(items, prefs)]
    /\ items' = ItemsAfterRender(items, prefs)
    /\ UNCHANGED <<authUid, tokenReqs, user, isAdmin, prefs, storage, contentRes,
                   deleteTarget, busy, err, calls, serverFiles>>
    /\ UNCHANGED <<srvVars, fnIn>>

NextDisplay == RenderDisplayed

SpecDisplay == InitDisplay /\ [][NextDisplay]_vars

(***************************************************************************)
(* Signing in and listing, with every answer a list request can get        *)
(***************************************************************************)

\* The failures of a list request: a refusal, a server error, and a server
\* error whose text mentions 403.
RefreshFailures == {"403", "500", "500b"}

NextRefresh ==
    \/ \E u \in Users : DoLogin(u)
    \/ \E u \in Users : TokenResolved(u)
    \/ DoLogout
    \/ RefreshRequested
    \/ \E v \in {"mine", "all"} : ViewClicked(v)
    \/ \E c \in calls, ok \in BOOLEAN : RespondAdmin(c, ok)
    \/ \E c \in calls, out \in {"ok"} \cup RefreshFailures : RespondRefresh(c, out)

SpecRefresh == Init /\ [][NextRefresh]_vars

(***************************************************************************)
(* The content-search core: the match finder                               *)
(***************************************************************************)

\* The text up to the first newline, and the text after it.
RECURSIVE FirstLine(_)
FirstLine(t) ==
    IF t = <<>> \/ Head(t) = "\n" THEN <<>> ELSE <<Head(t)>> \o FirstLine(Tail(t))

RECURSIVE AfterFirstLine(_)
AfterFirstLine(t) ==
    IF t = <<>> THEN <<>>
    ELSE IF Head(t) = "\n" THEN Tail(t)
    ELSE AfterFirstLine(Tail(t))

HasNewline(t) == \E i \in 1..Len(t) : t[i] = "\n"

\* The lines of a text, split at each newline.
RECURSIVE SplitLines(_)
SplitLines(t) ==
    IF HasNewline(t) THEN <<FirstLine(t)>> \o SplitLines(AfterFirstLine(t))
    ELSE <<t>>

\* A match finder that compares case-sensitively.
LineMatchesExactCase(line, q) == Includes(line, q)

\* A line matches when it contains the query as a case-insensitive substring.
LineMatches(line, q) == Includes(ToLower(line), ToLower(q))

\* The scan of the lines from line i on, which stops once the cap is reached.
RECURSIVE ScanLines(_, _, _, _, _)
ScanLines(lines, i, q, cap, acc) ==
    IF i > Len(lines) \/ Len(acc) >= cap THEN acc
    ELSE IF LineMatches(lines[i], q)
         THEN ScanLines(lines, i + 1, q, cap, Append(acc, [line |-> i, text |-> lines[i]]))
         ELSE ScanLines(lines, i + 1, q, cap, acc)

\* find_matches(text, query, max_matches)
FindMatches(text, q, cap) == ScanLines(SplitLines(text), 1, q, cap, <<>>)

\* The longest text, the longest query and the largest cap tried.
MaxTextLen == 4
MaxNeedleLen == 2
MaxCap == 2

NonEmptyTextsOver(alphabet, n) == TextsOver(alphabet, n) \ {<<>>}

InitMatch ==
    /\ UiMounted
    /\ storage = [k \in StorageKeys |-> Missing]
    /\ SrvIdle
    /\ fnIn \in [text : TextsOver({"a", "B", "\n"}, MaxTextLen),
                 q : NonEmptyTextsOver({"A", "b"}, MaxNeedleLen),
                 cap : 0..MaxCap]
    /\ fnOut = [done |-> FALSE, value |-> <<>>]

ApplyFindMatches ==
    /\ ~fnOut.done
    /\ fnOut' = [done |-> TRUE, value |-> FindMatches(fnIn.text, fnIn.q, fnIn.cap)]
    /\ UNCHANGED <<fnIn, uiVars, srvVars>>

NextMatch == ApplyFindMatches

SpecMatch == InitMatch /\ [][NextMatch]_vars

(***************************************************************************)
(* The content-search core: the orchestrator, one step per candidate       *)
(***************************************************************************)

\* The fixed per-file match cap.
PerFileMatchCap == 10

\* The candidate set of a scope: the caller's own records, or every record.
ResolveCandidates(store, uid, scope) ==
    LET Own(f) == f.uid = uid
    IN  IF scope = "all" THEN store ELSE SelectSeq(store, Own)

\* A record is eligible when it carries extracted text.
Eligible(f) == f.hasText

NoResp == [status |-> "none", items |-> <<>>, skipped |-> 0, truncated |-> 0]

\* A search that rejects no scope.
AuthorizeEveryone ==
    /\ sPc = "start"
    /\ sPc' = "enumerate"
    /\ UNCHANGED <<sStore, sReq, sCands, sIdx, sResp, sEvaluated, sEnumerated>>
    /\ UNCHANGED <<uiVars, fnVars>>

\* The authorization of the scope, before orchestration begins.
SrvAuthorize ==
    /\ sPc = "start"
    /\ IF ScopeAllowed(sReq.admin, sReq.scope)
       THEN /\ sPc' = "enumerate"
            /\ UNCHANGED sResp
       ELSE /\ sPc' = "done"
            /\ sResp' = [NoResp EXCEPT !.status = "forbidden"]
    /\ UNCHANGED <<sStore, sReq, sCands, sIdx, sEvaluated, sEnumerated>>
    /\ UNCHANGED <<uiVars, fnVars>>

\* Step 1: resolve the candidate set.
SrvEnumerate ==
    /\ sPc = "enumerate"
    /\ sCands' = ResolveCandidates(sStore, sReq.uid, sReq.scope)
    /\ sEnumerated' = TRUE
    /\ sIdx' = 1
    /\ IF sCands' = <<>>
       THEN /\ sPc' = "done"
            /\ sResp' = [NoResp EXCEPT !.status = "ok"]
       ELSE /\ sPc' = "scan"
            /\ UNCHANGED sResp
    /\ UNCHANGED <<sStore, sReq, sEvaluated>>
    /\ UNCHANGED <<uiVars, fnVars>>

\* An orchestrator that counts an evaluated candidate without a match as
\* truncated.
AfterCandidateCountingUnmatched(resp, f, q, max) ==
    IF ~Eligible(f) THEN [resp EXCEPT !.skipped = @ + 1]
    ELSE IF Len(resp.items) >= max THEN [resp EXCEPT !.truncated = @ + 1]
    ELSE LET m == FindMatches(f.text, q, PerFileMatchCap)
         IN  IF m # <<>> THEN [resp EXCEPT !.items = Append(@, [file |-> f, matches |-> m])]
             ELSE [resp EXCEPT !.truncated = @ + 1]

\* Steps 2 to 5 for one candidate: count it as skipped when it has no extracted
\* text; count it as truncated, unevaluated, when the result cap is reached;
\* else run the match finder and keep it when it has a match.
AfterCandidate(resp, f, q, max) ==
    IF ~Eligible(f) THEN [resp EXCEPT !.skipped = @ + 1]
    ELSE IF Len(resp.items) >= max THEN [resp EXCEPT !.truncated = @ + 1]
    ELSE LET m == FindMatches(f.text, q, PerFileMatchCap)
         IN  IF m # <<>> THEN [resp EXCEPT !.items = Append(@, [file |-> f, matches |-> m])]
             ELSE resp

\* Whether the match finder runs on candidate f.
Evaluates(resp, f, max) == Eligible(f) /\ Len(resp.items) < max

SrvStep ==
    /\ sPc = "scan"
    /\ LET f == sCands[sIdx]
           r == AfterCandidate(sResp, f, sReq.q, sReq.max)
       IN  /\ sEvaluated' = IF Evaluates(sResp, f, sReq.max)
                            THEN sEvaluated \cup {sIdx} ELSE sEvaluated
           /\ IF sIdx = Len(sCands)
              THEN /\ sPc' = "done"
                   /\ sResp' = [r EXCEPT !.status = "ok"]
              ELSE /\ sPc' = "scan"
                   /\ sResp' = r
    /\ sIdx' = sIdx + 1
    /\ UNCHANGED <<sStore, sReq, sCands, sEnumerated>>
    /\ UNCHANGED <<uiVars, fnVars>>

\* The most candidates in the store and the largest result cap tried.
MaxCands == 3
MaxResults == 2

\* The records a store may hold: an owner, and extracted text or none.
RecordKinds ==
    [uid : Users, hasText : {TRUE}, text : {<<"a">>, <<"b">>}]
    \cup [uid : Users, hasText : {FALSE}, text : {<<>>}]

RECURSIVE StoresUpTo(_)
StoresUpTo(n) ==
    IF n = 0 THEN {<<>>}
    ELSE LET shorter == StoresUpTo(n - 1)
         IN  shorter \cup {Append(st, k) : st \in {x \in shorter : Len(x) = n - 1},
                                          k \in RecordKinds}

\* A store sequence with ids: most recent (highest id) first.
WithIds(st) ==
    [i \in 1..Len(st) |->
        [id |-> Len(st) + 1 - i, uid |-> st[i].uid, hasText |-> st[i].hasText,
         text |-> st[i].text]]

InitSearch ==
    /\ UiMounted
    /\ storage = [k \in StorageKeys |-> Missing]
    /\ FnIdle
    /\ sStore \in {WithIds(st) : st \in StoresUpTo(MaxCands)}
    /\ sReq \in [admin : BOOLEAN, uid : {"u1"}, scope : {"mine", "all"}, q : {<<"A">>},
                 max : 0..MaxResults]
    /\ sCands = <<>>
    /\ sPc = "start"
    /\ sIdx = 0
    /\ sResp = NoResp
    /\ sEvaluated = {}
    /\ sEnumerated = FALSE

NextSearch ==
    \/ SrvAuthorize
    \/ SrvEnumerate
    \/ SrvStep

SpecSearch == InitSearch /\ [][NextSearch]_vars

(***************************************************************************)
(* Claims about the page                                                   *)
(***************************************************************************)

\* C1: a DELETE request is issued only for a file whose owner uid equals the
\* uid of the signed-in user who issues it; an administrator never triggers the
\* deletion of another user's file.
C1_DeleteOnlyOwnFiles ==
    \A c \in calls : c.k = "delete" => c.file.uid = c.uid

\* C6: delete is optimistic: from the moment the user confirms, and while the
\* server's delete response is still awaited, the file is no longer in the
\* displayed list.
C6_DeleteIsOptimistic ==
    \A c \in calls : c.k = "delete" => c.file \notin SeqToSet(displayed)

C2_NoEmptyQueryForwarded ==
    [][ /\ (RunContentSearch /\ Trim(prefs.contentQ) = <<>>)
            => (contentRes' = NoRes /\ calls' = calls)
        /\ \A c \in calls' \ calls :
              c.k = "search" =>
                  /\ c.q # <<>>
                  /\ ~IsSpace(c.q[1])
                  /\ ~IsSpace(c.q[Len(c.q)])
                  /\ c.q = Trim(prefs.contentQ)
      ]_vars

\* C2 witness: a search is in flight for the query inside a box that holds
\* surrounding whitespace.
C2_Witness ==
    \E c \in calls : c.k = "search" /\ prefs.contentQ # c.q /\ Trim(prefs.contentQ) = c.q

(***************************************************************************)
(* Claims about the content-search core                                    *)
(***************************************************************************)

\* The lines of a text and the matching ones, stated position by position.
NumLines(t) == 1 + Cardinality({i \in 1..Len(t) : t[i] = "\n"})

NthLine(t, j) ==
    LET at == {p \in 1..Len(t) :
                  /\ t[p] # "\n"
                  /\ Cardinality({i \in 1..(p - 1) : t[i] = "\n"}) = j - 1}
        first == IF at = {} THEN 0 ELSE CHOOSE p \in at : \A r \in at : p <= r
    IN  [k \in 1..Cardinality(at) |-> t[first + k - 1]]

ContainsIgnoringCase(line, q) ==
    \E off \in 0..(Len(line) - Len(q)) :
        \A k \in 1..Len(q) : LowerChar(line[off + k]) = LowerChar(q[k])

MatchingLines(t, q) == {j \in 1..NumLines(t) : ContainsIgnoringCase(NthLine(t, j), q)}

\* C3: find_matches(t, q, n) returns only (1-based line number, line text)
\* pairs whose line contains q case-insensitively, in ascending line-number
\* order, never more than n of them, and exactly the first n matching lines
\* of the document when more than n lines match.
C3_FindMatchesContract ==
    fnOut.done =>
        LET out == fnOut.value
            M == MatchingLines(fnIn.text, fnIn.q)
        IN  /\ \A k \in 1..Len(out) :
                  /\ out[k].line \in M
                  /\ out[k].text = NthLine(fnIn.text, out[k].line)
            /\ \A k \in 1..(Len(out) - 1) : out[k].line < out[k + 1].line
            /\ Len(out) <= fnIn.cap
            /\ Len(out) = Min(fnIn.cap, Cardinality(M))
            /\ \A j \in M : \/ \E k \in 1..Len(out) : out[k].line = j
                            \/ \A k \in 1..Len(out) : out[k].line < j

\* C3 witness: more lines match than the cap allows, and a line beyond the
\* cap was left out.
C3_Witness ==
    /\ fnOut.done
    /\ fnIn.cap >= 1
    /\ Len(fnOut.value) = fnIn.cap
    /\ Cardinality(MatchingLines(fnIn.text, fnIn.q)) > fnIn.cap

\* The candidates that are eligible and have a match.
HasMatch(f, q) == Eligible(f) /\ MatchingLines(f.text, q) # {}

\* The position of the file with the given id among the candidates.
PositionOf(id) == CHOOSE i \in 1..Len(sCands) : sCands[i].id = id

\* C4: with result cap m, the items of the response are at most m files, each
\* a candidate with at least one match, in candidate order; truncated_files is
\* the number of eligible candidates the match finder was never run on (never
\* one that was evaluated and did not match); two matching files with m = 1
\* give one item and truncated_files = 1.
C4_ResultCapAndTruncation ==
    (sPc = "done" /\ sResp.status = "ok") =>
        LET its == sResp.items
        IN  /\ Len(its) <= sReq.max
            /\ \A k \in 1..Len(its) :
                  /\ Len(its[k].matches) >= 1
                  /\ \E i \in 1..Len(sCands) : sCands[i] = its[k].file
                  /\ HasMatch(its[k].file, sReq.q)
            /\ \A k \in 1..(Len(its) - 1) :
                  PositionOf(its[k].file.id) < PositionOf(its[k + 1].file.id)
            /\ sResp.truncated =
                  Cardinality({i \in 1..Len(sCands) :
                                  Eligible(sCands[i]) /\ i \notin sEvaluated})
            /\ \A i \in sEvaluated :
                  HasMatch(sCands[i], sReq.q) <=>
                      \E k \in 1..Len(its) : its[k].file = sCands[i]
            /\ (/\ sReq.max = 1
                /\ Len(sCands) = 2
                /\ \A i \in 1..2 : HasMatch(sCands[i], sReq.q))
               => (Len(its) = 1 /\ sResp.truncated = 1)

\* C4 witness: the cap was reached with candidates left, after a candidate
\* was evaluated and did not match.
C4_Witness ==
    /\ sPc = "done"
    /\ sResp.status = "ok"
    /\ Len(sResp.items) = sReq.max
    /\ sResp.truncated >= 1
    /\ \E i \in sEvaluated : ~HasMatch(sCands[i], sReq.q)

\* C5: a search with scope all by a non-admin identity is rejected with an
\* authorization error before any candidate is enumerated or read, and yields
\* no items and no counters.
C5_ForbiddenBeforeEnumeration ==
    (~sReq.admin /\ sReq.scope = "all") =>
        /\ ~sEnumerated
        /\ sCands = <<>>
        /\ sEvaluated = {}
        /\ sResp.items = <<>> /\ sResp.skipped = 0 /\ sResp.truncated = 0
        /\ sPc \in {"start", "done"}
        /\ sPc = "done" => sResp.status = "forbidden"

\* C5 witness: a non-admin's search of every file, over a store that holds
\* matching files of others, has ended.
C5_Witness ==
    /\ ~sReq.admin /\ sReq.scope = "all"
    /\ sPc = "done"
    /\ \E i \in 1..Len(sStore) : sStore[i].uid # sReq.uid /\ HasMatch(sStore[i], sReq.q)

(***************************************************************************)
(* Claims about uploads, preferences and rendering                         *)
(***************************************************************************)

\* The name ends with .json, .txt or .pdf, in any letter case.
EndsWithAllowedExt(name) ==
    \E e \in AllowedExts :
        /\ Len(name) >= Len(e) + 1
        /\ ToLower(SubSeq(name, Len(name) - Len(e), Len(name))) = <<".">> \o e

\* C7: an upload request is sent only when every selected file's name ends
\* with .json, .txt or .pdf (case-insensitive).
C7_UploadOnlyAllowedTypes ==
    \A c \in calls :
        c.k = "upload" => \A i \in 1..Len(c.names) : EndsWithAllowedExt(c.names[i])

\* What signing in makes of a stored value: the defaults when it is missing
\* or unparsable, else each field from storage when stored, from the defaults
\* when not.
Restored(json) ==
    IF ~json.present \/ ~json.wellFormed THEN DEFAULT_PREFS
    ELSE [f \in DOMAIN DEFAULT_PREFS |->
            IF \E i \in 1..Len(json.entries) : json.entries[i][1] = f
            THEN json.entries[CHOOSE i \in 1..Len(json.entries) : json.entries[i][1] = f][2]
            ELSE DEFAULT_PREFS[f]]

\* C8: preferences are persisted per user and round-trip.  After every step
\* with a user u signed in, the value stored under u's key reads back as the
\* prefs in memory; a step touches no key but that of the user signed in
\* after it; and when the uid becomes u, the prefs in memory become what the
\* value stored under u's key reads back as (the last prefs u had, since that
\* value is the one written at u's last change).
C8_PrefsPersistPerUser ==
    [][ /\ user' # NoUser =>
            /\ storage'[PrefsKey(user')].present
            /\ storage'[PrefsKey(user')].wellFormed
            /\ Restored(storage'[PrefsKey(user')]) = prefs'
        /\ \A u \in Users : u # user' => storage'[PrefsKey(u)] = storage[PrefsKey(u)]
        /\ \A u \in Users :
              (user # u /\ user' = u) => prefs' = Restored(storage[PrefsKey(u)]) ]_vars

\* u2 signed in onto a stored object holding nothing but a sort, and u1's
\* stored value is one the page wrote for other prefs.
C8_Witness ==
    /\ user = "u2"
    /\ prefs = [DEFAULT_PREFS EXCEPT !.sort = "size"]
    /\ storage[PrefsKey("u1")] = Stringify([DEFAULT_PREFS EXCEPT !.view = "all", !.q = <<"a">>])

\* C9: a hit with n matches is rendered as its first min(10, n) matches in
\* the order received, with a "+k more" line exactly when n > 10, k = n - 10.
C9_DisplayCap ==
    fnOut.done =>
        LET n == Len(fnIn)
            rows == fnOut.value.rows
        IN  /\ Len(rows) = Min(10, n)
            /\ \A i \in 1..Len(rows) : rows[i] = fnIn[i]
            /\ (fnOut.value.more # <<>>) <=> (n > 10)
            /\ n > 10 => fnOut.value.more = <<n - 10>>

\* Twelve matches rendered: ten rows and "+2 more".
C9_Witness ==
    /\ fnOut.done
    /\ Len(fnIn) = 12
    /\ Len(fnOut.value.rows) = 10
    /\ fnOut.value.more = <<2>>

(***************************************************************************)
(* Claims about the displayed list                                         *)
(***************************************************************************)

\* Row x passes the type filter and the name query of prefs p.
PassesFilters(x, p) ==
    /\ Trim(p.ftype) # <<>> => x.type = ToLower(Trim(p.ftype))
    /\ Trim(p.q) # <<>> => ContainsIgnoringCase(x.name, Trim(p.q))

\* The rows of the fetched list that pass the filters.
FilteredRows(its, p) == {x \in SeqToSet(its) : PassesFilters(x, p)}

\* out holds exactly the rows of set rows, each once.
HoldsExactly(out, rows) == SeqToSet(out) = rows /\ Len(out) = Cardinality(rows)

\* C11: in the 'all' view the displayed list holds exactly the fetched items
\* whose type equals the trimmed, lower-cased type filter (when non-blank) and
\* whose name contains the trimmed name query case-insensitively (when
\* non-blank); in the 'mine' view it is the fetched list unchanged.
C11_DisplayedIsFiltered ==
    fnOut.done =>
        IF prefs.view = "all" THEN HoldsExactly(fnOut.value, FilteredRows(fnIn, prefs))
        ELSE fnOut.value = fnIn

\* A mixed-case query kept some rows of the 'all' view and dropped others.
C11_Witness ==
    /\ fnOut.done
    /\ prefs.view = "all"
    /\ prefs.q = <<" ", "B">>
    /\ Len(fnOut.value) = 2
    /\ Len(fnIn) = 3

\* The key the list is ordered by.
SortKeyOf(x, p) == IF p.sort = "size" THEN x.size ELSE x.created_at

\* C12: in the 'all' view the displayed list is a permutation of the filtered
\* items ordered by the selected key, non-decreasing for 'asc' and
\* non-increasing for 'desc'; computing it leaves the fetched items as they were.
C12_SortedPermutationItemsKept ==
    fnOut.done =>
        /\ items = fnIn
        /\ prefs.view = "all" =>
              /\ HoldsExactly(fnOut.value, FilteredRows(fnIn, prefs))
              /\ \A i \in 1..(Len(fnOut.value) - 1) :
                    IF prefs.order = "asc"
                    THEN SortKeyOf(fnOut.value[i], prefs) <= SortKeyOf(fnOut.value[i + 1], prefs)
                    ELSE SortKeyOf(fnOut.value[i], prefs) >= SortKeyOf(fnOut.value[i + 1], prefs)

\* An unfiltered 'all' view whose three rows were displayed in another order
\* than fetched.
C12_Witness ==
    /\ fnOut.done
    /\ prefs.view = "all"
    /\ Trim(prefs.ftype) = <<>>
    /\ Trim(prefs.q) = <<>>
    /\ Len(fnIn) = 3
    /\ fnOut.value # fnIn
    /\ items = fnIn

(***************************************************************************)
(* Claims about requests, the busy flag and the signed-in user             *)
(***************************************************************************)

\* C13: a failed list refresh falls back to the normal view (isAdmin false,
\* view 'mine', no error message) if and only if it was in 'all' mode and the
\* server answered with status 403; every other failure sets the error
\* message and leaves view and isAdmin unchanged; the file list is unchanged by
\* the failure and busy is cleared.
C13_FallbackIffStatus403 ==
    [][ \A c \in calls, out \in RefreshFailures :
            RespondRefresh(c, out) =>
                /\ items' = items
                /\ busy' = FALSE
                /\ IF c.mode = "all" /\ StatusOf(out) = "403"
                   THEN isAdmin' = FALSE /\ prefs'.view = "mine" /\ err' = err
                   ELSE /\ err' = ErrorOf(out)
                        /\ prefs'.view = prefs.view
                        /\ isAdmin' = isAdmin ]_vars

\* C14: a successful upload or delete is followed, before the operation
\* finishes, by a list request for the current view; a failed one issues no
\* list request, leaves the list unchanged and sets the error message.
C14_RefetchCurrentViewAfterWrite ==
    [][ \A c \in calls :
          /\ (RespondDelete(c, "ok") \/ RespondUpload(c, TRUE)) =>
                /\ busy'
                /\ \E r \in calls' : r.k = "refresh" /\ r.parent = c.k /\ r.mode = prefs.view
          /\ ((\E out \in {"403", "404", "500"} : RespondDelete(c, out))
                \/ RespondUpload(c, FALSE)) =>
                /\ calls' = calls \ {c}
                /\ items' = items
                /\ err' # NoErr ]_vars

\* C15: busy is true whenever a list, search, upload or delete request is in
\* flight.
C15_BusyWhileInFlight ==
    (\E c \in calls : c.k \in {"refresh", "search", "upload", "delete"}) => busy

\* C16: the user state reflects the most recent auth-state event: after a
\* sign-out the user is null until a later sign-in event.
C16_UserFollowsAuthState ==
    authUid = NoUser => user = NoUser

\* C17: whenever no user is signed in, the file list is empty and isAdmin is
\* false.
C17_SignedOutShowsNothing ==
    user = NoUser => (items = <<>> /\ ~isAdmin)

\* C18: whenever the view is 'all' and nothing is in flight, isAdmin is true
\* and the file list is what the admin list-all endpoint answers.
C18_AllViewShowsAllFiles ==
    (prefs.view = "all" /\ calls = {} /\ tokenReqs = {}) =>
        (isAdmin /\ items = ServerListAll(serverFiles))

====
